---- MODULE Spec2Model ----
\* The agent's security dRPC module (control/cmd/daos_agent/security_rpc.go):
\* HandleCall, the lazily fetched valid-flavor list, the credential request
\* lifecycle and the credential cache, as a state machine of concurrent calls.
EXTENDS Integers, Sequences, FiniteSets, TLC

\* ------------------------------------------------------------------ bounds
\* Number of HandleCall invocations (each runs in its own goroutine).
NumReq == 2
\* The clock runs from 0 to MaxTime.
MaxTime == 2
\* The configured cache expiration when the cache is enabled.
CacheLifetime == 1

Req == 1..NumReq

\* Number of calls that are in getSignedCredential together.
NumSigners == 3

Signers == 1..NumSigners

\* The values cfg.credentials.CacheExpiration is configured with: negative,
\* zero, positive.
CacheExpirations == {-CacheLifetime, 0, CacheLifetime}

\* ------------------------------------------------------------------ values
\* The zero value of auth.Flavor, which make() fills a new slice with.
ZeroFlavor == "AUTH_NONE"
\* The flavors of the factories in auth.CredentialRequests, in list order.
CredentialRequests == <<"AUTH_SYS", "AUTH_AM">>
Flavors == {"AUTH_NONE", "AUTH_SYS", "AUTH_AM"}

\* The registry built from the factory list: the set of its keys.
FlavorToFactory == {CredentialRequests[i] : i \in 1..Len(CredentialRequests)}

\* The flavor CredentialRequestUnix reports.
UnixFlavor == CredentialRequests[1]

Methods == {"RequestCredentials", "RequestValidFlavors", "Other"}

\* Request payloads: empty bytes, bytes that fail to unmarshal, or an encoded
\* AuthArgs naming a flavor.
NoPayload == [kind |-> "none", flavor |-> ZeroFlavor]
Payloads ==
    {[kind |-> "empty", flavor |-> ZeroFlavor], [kind |-> "bad", flavor |-> ZeroFlavor]}
        \cup {[kind |-> "msg", flavor |-> f] : f \in Flavors}

\* The lists the attach-info service may answer with.
ServerLists == {<<>>, <<"AUTH_SYS">>, <<"AUTH_AM", "AUTH_SYS">>}

\* CredReqKey values a request can have after InitCredentialRequest.
Keys == {"k1", "k2"}

\* A nil *auth.Credential; a non-nil credential is named by the call that signed it.
NilCred == 0
\* The zero time.Time.
ZeroTime == -1

\* ------------------------------------------------------------------ outcomes
NoResult == [kind |-> "none", why |-> "", cred |-> NilCred, list |-> <<>>]
\* HandleCall returned (nil, err): a transport-level error.
ErrResult(why) == [kind |-> "error", why |-> why, cred |-> NilCred, list |-> <<>>]
\* HandleCall returned an encoded GetCredResp carrying only a status.
StatusResult(status) == [kind |-> "status", why |-> status, cred |-> NilCred, list |-> <<>>]
\* HandleCall returned an encoded GetCredResp carrying a credential.
CredResult(c) == [kind |-> "cred", why |-> "", cred |-> c, list |-> <<>>]
\* HandleCall returned an encoded GetValidAuthResp.
FlavorsResult(l) == [kind |-> "flavors", why |-> "", cred |-> NilCred, list |-> l]
\* The goroutine panicked.
PanicResult(why) == [kind |-> "panic", why |-> why, cred |-> NilCred, list |-> <<>>]

\* The parameters and locals of one call; they are gone when it returns.
\*   method, reqb  HandleCall's parameters
\*   args          the decoded AuthArgs flavor
\*   resp, idx     retrieveAuthFromServer's resp.ValidAuthFlavors and loop index
\*   key           req.CredReqKey() once the request is initialized
\*   item          the cachedCredential GetOrCreate returned, named by its creator
NoFrame ==
    [method |-> "", reqb |-> NoPayload, args |-> ZeroFlavor, resp |-> <<>>, idx |-> 1,
     key |-> "", item |-> 0]

VARIABLES
    now,              \* time.Now()
    credLifetime,     \* cfg.credentials.CacheExpiration
    validAuthFlavors, \* SecurityModule.validAuthFlavors
    crashed,          \* the process died of an unrecovered panic
    pc,               \* where each call is
    frame,            \* each call's parameters and locals
    slot,             \* the item cache's mapping: key -> nothing, marker or entry
    entries,          \* the cachedCredential each creation produced
    refs,             \* outstanding references of each cachedCredential
    attached,         \* the creation a call ran, waited on or was served by
    result,           \* what HandleCall returned
    calls             \* what each call invoked: "fetch", "privkey", "init",
                      \* "signCredential", "cache" (GetOrCreate), "signer"
                      \* (auth.CredentialRequestGetSigned), and what happened to it:
                      \* "privkey_err", "init_err", "sign_err", "wait" (blocked on
                      \* a creation in progress)

\* The auth package on its own (security/auth): one use of the token verifier
\* functions, and one construction of the flavor registry.
VARIABLES
    verify,           \* the arguments and results of VerifierFromToken / VerifyToken
    authMap           \* generateAuthMap's factory list, loop position and map

vars == <<now, credLifetime, validAuthFlavors, crashed, pc, frame, slot, entries, refs,
          attached, result, calls, verify, authMap>>

moduleVars == <<now, credLifetime, validAuthFlavors, crashed, pc, frame, slot, entries,
                refs, attached, result, calls>>

authVars == <<verify, authMap>>

cacheVars == <<slot, entries, refs, attached>>

\* ------------------------------------------------------------------ helpers
Contains(s, x) == \E i \in 1..Len(s) : s[i] = x

\* make([]auth.Flavor, n): n zero values.
MakeFlavors(n) == [i \in 1..n |-> ZeroFlavor]

\* The call moves on within HandleCall.
Goto(r, where) ==
    /\ pc' = [pc EXCEPT ![r] = where]
    /\ UNCHANGED result

\* HandleCall returns.
Return(r, res) ==
    /\ pc' = [pc EXCEPT ![r] = "done"]
    /\ result' = [result EXCEPT ![r] = res]
    /\ frame' = [frame EXCEPT ![r] = NoFrame]

Invoked(r, what) == calls' = [calls EXCEPT ![r] = @ \cup what]

\* ------------------------------------------------------------------ HandleCall
\* A decoder without the empty-bytes case: unmarshalling no bytes gives the
\* zero AuthArgs.
getAuthArgsNoDefault(p) ==
    IF p.kind = "bad" THEN [ok |-> FALSE, flavor |-> ZeroFlavor]
    ELSE [ok |-> TRUE, flavor |-> p.flavor]

\* getAuthArgs: empty bytes name the Unix flavor, other bytes are unmarshalled.
getAuthArgs(p) ==
    IF p.kind = "empty" THEN [ok |-> TRUE, flavor |-> UnixFlavor]
    ELSE IF p.kind = "bad" THEN [ok |-> FALSE, flavor |-> ZeroFlavor]
    ELSE [ok |-> TRUE, flavor |-> p.flavor]

\* A dispatcher that looks at the method before the flavor registry.
DispatchMethodFirst(m, p) ==
    LET a == getAuthArgs(p) IN
    IF ~a.ok THEN [next |-> "done", res |-> ErrResult("unmarshal"), flavor |-> ZeroFlavor]
    ELSE IF m = "RequestCredentials"
        THEN [next |-> "getCredential", res |-> NoResult, flavor |-> a.flavor]
    ELSE IF m = "RequestValidFlavors"
        THEN [next |-> "getValidAuthFlavors", res |-> NoResult, flavor |-> a.flavor]
    ELSE IF a.flavor \notin FlavorToFactory
        THEN [next |-> "done", res |-> ErrResult("unsupported_flavor"), flavor |-> a.flavor]
    ELSE [next |-> "done", res |-> ErrResult("unknown_method"), flavor |-> a.flavor]

\* The body of HandleCall: decode, registry lookup, then the method switch.
Dispatch(m, p) ==
    LET a == getAuthArgs(p) IN
    IF ~a.ok THEN [next |-> "done", res |-> ErrResult("unmarshal"), flavor |-> ZeroFlavor]
    ELSE IF a.flavor \notin FlavorToFactory
        THEN [next |-> "done", res |-> ErrResult("unsupported_flavor"), flavor |-> a.flavor]
    ELSE IF m = "RequestCredentials"
        THEN [next |-> "getCredential", res |-> NoResult, flavor |-> a.flavor]
    ELSE IF m = "RequestValidFlavors"
        THEN [next |-> "getValidAuthFlavors", res |-> NoResult, flavor |-> a.flavor]
    ELSE [next |-> "done", res |-> ErrResult("unknown_method"), flavor |-> a.flavor]

\* GetMethod: the method of an ID, for the dRPC server; an ID is named here by
\* its method.
GetMethod(id) ==
    IF id = "RequestCredentials" THEN [ok |-> TRUE, method |-> id]
    ELSE [ok |-> FALSE, method |-> ""]

\* The dRPC server calls HandleCall with a method and a request body. Calls are
\* numbered in their order of arrival.
Invoke(r) ==
    /\ ~crashed
    /\ pc[r] = "idle"
    /\ \A q \in Req : q < r => pc[q] # "idle"
    /\ \E m \in Methods, p \in Payloads :
        frame' = [frame EXCEPT ![r] = [NoFrame EXCEPT !.method = m, !.reqb = p]]
    /\ Goto(r, "called")
    /\ UNCHANGED <<authVars, now, credLifetime, validAuthFlavors, crashed, cacheVars, calls>>

\* HandleCall rejects the call: unmarshal failure, flavor without a factory, or
\* unknown method.
HandleCallRejects(r) ==
    /\ ~crashed
    /\ pc[r] = "called"
    /\ LET d == Dispatch(frame[r].method, frame[r].reqb) IN
        /\ d.next = "done"
        /\ Return(r, d.res)
    /\ UNCHANGED <<authVars, now, credLifetime, validAuthFlavors, crashed, cacheVars, calls>>

\* HandleCall enters getCredential or getValidAuthFlavors with the decoded args.
HandleCall(r) ==
    /\ ~crashed
    /\ pc[r] = "called"
    /\ LET d == Dispatch(frame[r].method, frame[r].reqb) IN
        /\ d.next \in {"getCredential", "getValidAuthFlavors"}
        /\ frame' = [frame EXCEPT ![r].args = d.flavor]
        /\ Goto(r, d.next)
    /\ UNCHANGED <<authVars, now, credLifetime, validAuthFlavors, crashed, cacheVars, calls>>

\* ------------------------------------------------------ the valid-flavor list
\* getCredential / getValidAuthFlavors: fetch only when the stored list is empty.
NeedsFetch(flavors) == Len(flavors) = 0

\* Where a call continues once the list is loaded.
AfterLoaded(m) == IF m = "RequestCredentials" THEN "member" ELSE "respond"

\* The first statement of getCredential and of getValidAuthFlavors.
CheckFlavorsLoaded(r) ==
    /\ ~crashed
    /\ pc[r] \in {"getCredential", "getValidAuthFlavors"}
    /\ Goto(r, IF NeedsFetch(validAuthFlavors) THEN "fetch" ELSE AfterLoaded(frame[r].method))
    /\ UNCHANGED <<authVars, now, credLifetime, validAuthFlavors, crashed, frame, cacheVars, calls>>

\* retrieveAuthFromServer: infoCache.GetAttachInfo answers with an error ...
GetAttachInfoFails(r) ==
    /\ ~crashed
    /\ pc[r] = "fetch"
    /\ Invoked(r, {"fetch"})
    /\ Return(r, ErrResult("fetch"))
    /\ UNCHANGED <<authVars, now, credLifetime, validAuthFlavors, crashed, cacheVars>>

\* ... or with the server's list at that moment.
GetAttachInfo(r) ==
    /\ ~crashed
    /\ pc[r] = "fetch"
    /\ Invoked(r, {"fetch"})
    /\ \E l \in ServerLists : frame' = [frame EXCEPT ![r].resp = l]
    /\ Goto(r, "make")
    /\ UNCHANGED <<authVars, now, credLifetime, validAuthFlavors, crashed, cacheVars>>

\* m.validAuthFlavors = make([]auth.Flavor, len(resp.ValidAuthFlavors))
MakeValidAuthFlavors(r) ==
    /\ ~crashed
    /\ pc[r] = "make"
    /\ validAuthFlavors' = MakeFlavors(Len(frame[r].resp))
    /\ frame' = [frame EXCEPT ![r].idx = 1]
    /\ Goto(r, "fill")
    /\ UNCHANGED <<authVars, now, credLifetime, crashed, cacheVars, calls>>

\* One iteration of the copy loop, on the slice the field holds at that moment.
FillValidAuthFlavors(r) ==
    /\ ~crashed
    /\ pc[r] = "fill"
    /\ frame[r].idx <= Len(frame[r].resp)
    /\ frame[r].idx <= Len(validAuthFlavors)
    /\ validAuthFlavors' =
        [validAuthFlavors EXCEPT ![frame[r].idx] = frame[r].resp[frame[r].idx]]
    /\ frame' = [frame EXCEPT ![r].idx = @ + 1]
    /\ UNCHANGED <<authVars, now, credLifetime, crashed, pc, result, cacheVars, calls>>

\* The field was replaced by a shorter slice meanwhile: index out of range.
FillOutOfRange(r) ==
    /\ ~crashed
    /\ pc[r] = "fill"
    /\ frame[r].idx <= Len(frame[r].resp)
    /\ frame[r].idx > Len(validAuthFlavors)
    /\ crashed' = TRUE
    /\ Return(r, PanicResult("index out of range"))
    /\ UNCHANGED <<authVars, now, credLifetime, validAuthFlavors, cacheVars, calls>>

\* After the loop: if len(m.validAuthFlavors) == 0 the fetch is an error.
CheckFlavorsReceived(r) ==
    /\ ~crashed
    /\ pc[r] = "fill"
    /\ frame[r].idx > Len(frame[r].resp)
    /\ IF Len(validAuthFlavors) = 0
       THEN Return(r, ErrResult("fetch"))
       ELSE /\ Goto(r, AfterLoaded(frame[r].method))
            /\ frame' = [frame EXCEPT ![r].resp = <<>>, ![r].idx = 1]
    /\ UNCHANGED <<authVars, now, credLifetime, validAuthFlavors, crashed, cacheVars, calls>>

\* getValidAuthFlavors: encode the stored list.
RespondValidAuthFlavors(r) ==
    /\ ~crashed
    /\ pc[r] = "respond"
    /\ Return(r, FlavorsResult(validAuthFlavors))
    /\ UNCHANGED <<authVars, now, credLifetime, validAuthFlavors, crashed, cacheVars, calls>>

\* ------------------------------------------------------------ getCredential
\* A membership check that lets every flavor through.
FlavorAllowedAny(flavors, f) == TRUE

\* slices.Contains(m.validAuthFlavors, args.Flavor)
FlavorAllowed(flavors, f) == Contains(flavors, f)

\* The membership check of getCredential, on the list the field holds now.
CheckFlavorAllowed(r) ==
    /\ ~crashed
    /\ pc[r] = "member"
    /\ IF FlavorAllowed(validAuthFlavors, frame[r].args)
       THEN Goto(r, "privkey") /\ UNCHANGED frame
       ELSE Return(r, ErrResult("invalid_flavor"))
    /\ UNCHANGED <<authVars, now, credLifetime, validAuthFlavors, crashed, cacheVars, calls>>

\* A getCredential that goes on to initialize the request without a key.
AfterPrivateKeyIgnored(ok) == [next |-> "init", res |-> NoResult]

\* What getCredential does with the outcome of transport.PrivateKey().
AfterPrivateKey(ok) ==
    IF ok THEN [next |-> "init", res |-> NoResult]
    ELSE [next |-> "done", res |-> StatusResult("BadCert")]

\* m.config.transport.PrivateKey() returns a key.
PrivateKey(r) ==
    /\ ~crashed
    /\ pc[r] = "privkey"
    /\ Invoked(r, {"privkey"})
    /\ Goto(r, AfterPrivateKey(TRUE).next)
    /\ UNCHANGED <<authVars, now, credLifetime, validAuthFlavors, crashed, frame, cacheVars>>

\* m.config.transport.PrivateKey() returns an error.
PrivateKeyFails(r) ==
    /\ ~crashed
    /\ pc[r] = "privkey"
    /\ Invoked(r, {"privkey", "privkey_err"})
    /\ IF AfterPrivateKey(FALSE).next = "done"
       THEN Return(r, AfterPrivateKey(FALSE).res)
       ELSE Goto(r, AfterPrivateKey(FALSE).next) /\ UNCHANGED frame
    /\ UNCHANGED <<authVars, now, credLifetime, validAuthFlavors, crashed, cacheVars>>

\* The errors InitCredentialRequest can return: the daos.MiscError status
\* itself; an error wrapping daos.MiscError; any other error.
InitErrors == {"misc", "wrapped_misc", "other"}

\* A getCredential that goes on to encode a response after a failed Init.
AfterInitErrorFallsThrough(e) == CredResult(NilCred)

\* What getCredential does with an error of InitCredentialRequest:
\* errors.Is(err, daos.MiscError) selects the status response, whose status is
\* the type assertion err.(daos.Status); every other error is returned as it is.
AfterInitError(e) ==
    IF e = "misc" THEN StatusResult("MiscError")
    ELSE IF e = "wrapped_misc" THEN PanicResult("type assertion")
    ELSE ErrResult("init")

\* req.InitCredentialRequest(...) succeeds: the request has its cache key.
InitCredentialRequest(r) ==
    /\ ~crashed
    /\ pc[r] = "init"
    /\ Invoked(r, {"init"})
    /\ \E k \in Keys : frame' = [frame EXCEPT ![r].key = k]
    /\ Goto(r, "sign")
    /\ UNCHANGED <<authVars, now, credLifetime, validAuthFlavors, crashed, cacheVars>>

\* req.InitCredentialRequest(...) fails.
InitCredentialRequestFails(r) ==
    /\ ~crashed
    /\ pc[r] = "init"
    /\ Invoked(r, {"init", "init_err"})
    /\ \E e \in InitErrors :
        /\ Return(r, AfterInitError(e))
        /\ crashed' = (AfterInitError(e).kind = "panic")
    /\ UNCHANGED <<authVars, now, credLifetime, validAuthFlavors, cacheVars>>

\* What the signer (auth.CredentialRequestGetSigned) can return: a credential,
\* an error, or a nil credential without an error.
SignOutcomes == {"cred", "err", "nil"}

\* The credential the signer returns to call r.
SignedCred(r, o) == IF o = "cred" THEN r ELSE NilCred

\* A getCredential that encodes the credential without looking at the error.
AfterSignErrorDropped(cred, err) == CredResult(cred)

\* What getCredential does with the return of m.signCredential.
AfterSign(cred, err) ==
    IF err THEN StatusResult("MiscError") ELSE CredResult(cred)

\* A module that builds its cache whatever the configured expiration.
CacheEnabledAlways(lifetime) == TRUE

\* NewSecurityModule: signCredential is the cache's getSignedCredential when
\* CacheExpiration > 0, and the signer itself otherwise.
CacheEnabled(lifetime) == lifetime > 0

\* m.signCredential without a cache: the signer is called directly.
SignDirect(r) ==
    /\ ~crashed
    /\ pc[r] = "sign"
    /\ ~CacheEnabled(credLifetime)
    /\ Invoked(r, {"signCredential", "signer"})
    /\ Goto(r, "signing")
    /\ UNCHANGED <<authVars, now, credLifetime, validAuthFlavors, crashed, frame, cacheVars>>

\* The direct signer returns.
SignDirectDone(r) ==
    /\ ~crashed
    /\ pc[r] = "signing"
    /\ \E o \in SignOutcomes :
        /\ Invoked(r, IF o = "err" THEN {"sign_err"} ELSE {})
        /\ Return(r, AfterSign(SignedCred(r, o), o = "err"))
    /\ UNCHANGED <<authVars, now, credLifetime, validAuthFlavors, crashed, cacheVars>>

\* --------------------------------------------------------- credentialCache
\* getSignedCredential goes through cache.ItemCache.GetOrCreate, whose code is
\* in control/lib/cache. The lookup, the in-progress marker, the waiters and
\* the reference counts below follow the cache's specified contract: one
\* mapping from key to a slot that is empty, a marker or an entry; the marker
\* takes the key's place (also the place of an expired entry) while createItem
\* runs outside the lock; an entry object is named by the call that created it.
NoEntry == [key |-> "", cred |-> NilCred, expiredAt |-> ZeroTime]
NoSlot == [kind |-> "none", owner |-> 0]
Marker(r) == [kind |-> "marker", owner |-> r]
Entry(r) == [kind |-> "entry", owner |-> r]

\* cachedCredential.IsExpired at time t.
IsExpired(e, t) ==
    IF e = NoEntry \/ e.cred = NilCred \/ e.expiredAt = ZeroTime THEN TRUE
    ELSE t > e.expiredAt

\* A constructor that stores whatever credential it is given.
newCachedCredentialUnchecked(key, cred, lifetime, t) ==
    [ok |-> TRUE, entry |-> [key |-> key, cred |-> cred, expiredAt |-> t + lifetime]]

\* newCachedCredential at time t: a nil credential is an error.
newCachedCredential(key, cred, lifetime, t) ==
    IF cred = NilCred THEN [ok |-> FALSE, entry |-> NoEntry]
    ELSE [ok |-> TRUE, entry |-> [key |-> key, cred |-> cred, expiredAt |-> t + lifetime]]

\* The createItem closure of getSignedCredential, given what cacheMissFn returned.
createItem(key, cred, err, lifetime, t) ==
    IF err THEN [ok |-> FALSE, entry |-> NoEntry]
    ELSE newCachedCredential(key, cred, lifetime, t)

\* A cache key that is the same for every request.
CacheKeyShared(r) == "k1"

\* key := req.CredReqKey()
CacheKey(r) == frame[r].key

\* ItemCache.GetOrCreate, the lookup under the cache lock: a present, unexpired
\* entry is handed out with one more reference.
GetOrCreateHit(r) ==
    /\ ~crashed
    /\ pc[r] = "sign"
    /\ CacheEnabled(credLifetime)
    /\ LET s == slot[CacheKey(r)] IN
        /\ s.kind = "entry"
        /\ ~IsExpired(entries[s.owner], now)
        /\ refs' = [refs EXCEPT ![s.owner] = @ + 1]
        /\ frame' = [frame EXCEPT ![r].item = s.owner]
        /\ attached' = [attached EXCEPT ![r] = s.owner]
    /\ Invoked(r, {"signCredential", "cache"})
    /\ Goto(r, "held")
    /\ UNCHANGED <<authVars, now, credLifetime, validAuthFlavors, crashed, slot, entries>>

\* The lookup finds the marker of a creation in progress: wait for it.
GetOrCreateWait(r) ==
    /\ ~crashed
    /\ pc[r] = "sign"
    /\ CacheEnabled(credLifetime)
    /\ LET s == slot[CacheKey(r)] IN
        /\ s.kind = "marker"
        /\ attached' = [attached EXCEPT ![r] = s.owner]
    /\ Invoked(r, {"signCredential", "cache", "wait"})
    /\ Goto(r, "waiting")
    /\ UNCHANGED <<authVars, now, credLifetime, validAuthFlavors, crashed, frame, slot, entries, refs>>

\* The lookup finds nothing, or an expired entry: the marker takes the key's
\* place, the lock is released and createItem starts (cacheMissFn is called).
GetOrCreateMiss(r) ==
    /\ ~crashed
    /\ pc[r] = "sign"
    /\ CacheEnabled(credLifetime)
    /\ LET s == slot[CacheKey(r)] IN
        IF s.kind = "entry" THEN IsExpired(entries[s.owner], now) ELSE s.kind = "none"
    /\ slot' = [slot EXCEPT ![CacheKey(r)] = Marker(r)]
    /\ attached' = [attached EXCEPT ![r] = r]
    /\ Invoked(r, {"signCredential", "cache", "signer"})
    /\ Goto(r, "creating")
    /\ UNCHANGED <<authVars, now, credLifetime, validAuthFlavors, crashed, frame, entries, refs>>

\* cacheMissFn returns and createItem succeeds: the entry replaces the marker
\* with one reference, held by the creator.
CreateItemDone(r) ==
    /\ ~crashed
    /\ pc[r] = "creating"
    /\ \E o \in SignOutcomes :
        LET c == createItem(CacheKey(r), SignedCred(r, o), o = "err", credLifetime, now) IN
        /\ c.ok
        /\ entries' = [entries EXCEPT ![r] = c.entry]
    /\ slot' = [slot EXCEPT ![CacheKey(r)] = Entry(r)]
    /\ refs' = [refs EXCEPT ![r] = 1]
    /\ frame' = [frame EXCEPT ![r].item = r]
    /\ Goto(r, "held")
    /\ UNCHANGED <<authVars, now, credLifetime, validAuthFlavors, crashed, attached, calls>>

\* createItem fails: the marker is removed, GetOrCreate returns the error, and
\* getCredential answers with the MiscError status.
CreateItemFailed(r) ==
    /\ ~crashed
    /\ pc[r] = "creating"
    /\ \E o \in SignOutcomes :
        ~createItem(CacheKey(r), SignedCred(r, o), o = "err", credLifetime, now).ok
    /\ slot' = [slot EXCEPT ![CacheKey(r)] = NoSlot]
    /\ Invoked(r, {"sign_err"})
    /\ Return(r, AfterSign(NilCred, TRUE))
    /\ UNCHANGED <<authVars, now, credLifetime, validAuthFlavors, crashed, entries, refs, attached>>

\* A waiter of a finished creation receives the entry it produced ...
WaiterServed(r) ==
    /\ ~crashed
    /\ pc[r] = "waiting"
    /\ pc[attached[r]] # "creating"
    /\ entries[attached[r]] # NoEntry
    /\ refs' = [refs EXCEPT ![attached[r]] = @ + 1]
    /\ frame' = [frame EXCEPT ![r].item = attached[r]]
    /\ Goto(r, "held")
    /\ UNCHANGED <<authVars, now, credLifetime, validAuthFlavors, crashed, slot, entries, attached,
                   calls>>

\* ... or the error it failed with.
WaiterFailed(r) ==
    /\ ~crashed
    /\ pc[r] = "waiting"
    /\ pc[attached[r]] # "creating"
    /\ entries[attached[r]] = NoEntry
    /\ Invoked(r, {"sign_err"})
    /\ Return(r, AfterSign(NilCred, TRUE))
    /\ UNCHANGED <<authVars, now, credLifetime, validAuthFlavors, crashed, cacheVars>>

\* The credential getSignedCredential returns from the item it holds.
ReturnedCred(e) == e.cred

\* A getSignedCredential that never releases the item.
ReleasedNever(isCachedCredential) == 0

\* How many times getSignedCredential calls release() once GetOrCreate gave it
\* an item: release is deferred before the type assertion, so it runs on the
\* invalid-item return as on the normal one.
Released(isCachedCredential) == 1

\* getSignedCredential returns cachedCred.cred (createItem stores nothing but
\* cachedCredentials, so the type assertion holds); the deferred release()
\* drops the reference; getCredential encodes the credential.
ReturnCredential(r) ==
    /\ ~crashed
    /\ pc[r] = "held"
    /\ refs' = [refs EXCEPT ![frame[r].item] = @ - Released(TRUE)]
    /\ Return(r, AfterSign(ReturnedCred(entries[frame[r].item]), FALSE))
    /\ UNCHANGED <<authVars, now, credLifetime, validAuthFlavors, crashed, slot, entries, attached,
                   calls>>

\* ------------------------------------------------------------ cancellation
\* Cancellation of a caller's context, as the cache's contract has it: the
\* signer is called with the context, so cancelling the creator's context ends
\* cacheMissFn with an error, createItem fails with it, the marker is removed
\* and the error goes to the caller.
CancelSigner(r) ==
    /\ ~crashed
    /\ pc[r] = "creating"
    /\ ~createItem(CacheKey(r), NilCred, TRUE, credLifetime, now).ok
    /\ slot' = [slot EXCEPT ![CacheKey(r)] = NoSlot]
    /\ Invoked(r, {"sign_err", "cancelled"})
    /\ Return(r, AfterSign(NilCred, TRUE))
    /\ UNCHANGED <<authVars, now, credLifetime, validAuthFlavors, crashed, entries, refs,
                   attached>>

\* Cancelling the context of a caller that waits for a creation: GetOrCreate
\* returns the context's error to that caller and nothing else changes.
CancelWaiter(r) ==
    /\ ~crashed
    /\ pc[r] = "waiting"
    /\ Invoked(r, {"sign_err", "cancelled"})
    /\ Return(r, AfterSign(NilCred, TRUE))
    /\ UNCHANGED <<authVars, now, credLifetime, validAuthFlavors, crashed, cacheVars>>

\* ------------------------------------------------------------------ time
Tick ==
    /\ ~crashed
    /\ now < MaxTime
    /\ now' = now + 1
    /\ UNCHANGED <<authVars, credLifetime, validAuthFlavors, crashed, pc, frame, cacheVars, result,
                   calls>>

\* ------------------------------------------------- auth: token verifiers
\* Token.Data is at most MaxDataLen bytes, each below NumBytes.
MaxDataLen == 1
NumBytes == 2
\* Key pairs in existence.
NumKeyPairs == 2

\* The numeric value of a flavor, as uint32(token.Flavor) gives it.
FlavorValue(f) == IF f = "AUTH_NONE" THEN 0 ELSE IF f = "AUTH_SYS" THEN 1 ELSE 2

TokenData == UNION {[1..n -> 0..(NumBytes - 1)] : n \in 0..MaxDataLen}

\* A nil *Token.
NilToken == [nil |-> TRUE, flavor |-> ZeroFlavor, data |-> <<>>]
Tokens == [nil : {FALSE}, flavor : Flavors, data : TokenData]

\* A nil crypto.PublicKey, and the two halves of a key pair.
NilKey == [kind |-> "nil", pair |-> 0]
PrivateKeyOf(k) == [kind |-> "private", pair |-> k]
PublicKeyOf(k) == [kind |-> "public", pair |-> k]
SigningKeys == {NilKey} \cup {PrivateKeyOf(k) : k \in 1..NumKeyPairs}
VerifyingKeys == {NilKey} \cup {PublicKeyOf(k) : k \in 1..NumKeyPairs}

\* The validAuthFlavors argument of VerifyToken.
ValidFlavorLists == {<<>>, <<1>>, <<2>>, <<1, 2>>}

\* proto.Marshal(token): the flavor's value followed by the data bytes; a nil
\* message marshals to no bytes.
Marshal(token) ==
    IF token.nil THEN <<>> ELSE <<FlavorValue(token.flavor)>> \o token.data

\* security.DefaultTokenSigner() is in control/security. Its contract: Hash is a
\* content digest of the bytes (no two byte strings of the model share one);
\* Sign makes, with a private key, a signature over the bytes that Verify
\* accepts with the public key of the same pair, over the same bytes, only.
NoVerifier == [alg |-> "none", pair |-> 0, over |-> <<>>]
Hash(bytes) == [alg |-> "sha512", pair |-> 0, over |-> bytes]
Sign(key, bytes) ==
    IF key.kind = "private"
    THEN [err |-> "", sig |-> [alg |-> "signature", pair |-> key.pair, over |-> bytes]]
    ELSE [err |-> "sign", sig |-> NoVerifier]
Verify(key, bytes, sig) ==
    key.kind = "public" /\ sig = [alg |-> "signature", pair |-> key.pair, over |-> bytes]

\* A VerifierFromToken that hashes whether or not it is given a key.
VerifierFromTokenHashOnly(key, token) ==
    [err |-> "", sig |-> Hash(Marshal(token))]

\* VerifierFromToken: the hash of the marshalled token without a key, its
\* signature with one.
VerifierFromToken(key, token) ==
    IF key = NilKey THEN [err |-> "", sig |-> Hash(Marshal(token))]
    ELSE Sign(key, Marshal(token))

\* What VerifyToken returns, with the signer operations it performed on the way.
VerifyOutcome(err, ops) == [done |-> TRUE, err |-> err, ops |-> ops]
NoOutcome == [done |-> FALSE, err |-> "", ops |-> <<>>]

\* A VerifyToken that looks at the flavor after the verifier.
VerifyTokenFlavorLast(key, token, sig, valid) ==
    IF token.nil THEN VerifyOutcome("panic", <<>>)
    ELSE IF key = NilKey
        THEN IF Hash(Marshal(token)) # sig THEN VerifyOutcome("hash", <<"Hash">>)
             ELSE IF ~Contains(valid, FlavorValue(token.flavor))
                 THEN VerifyOutcome("flavor", <<"Hash">>)
             ELSE VerifyOutcome("", <<"Hash">>)
    ELSE IF ~Verify(key, Marshal(token), sig) THEN VerifyOutcome("verify", <<"Verify">>)
    ELSE IF ~Contains(valid, FlavorValue(token.flavor))
        THEN VerifyOutcome("flavor", <<"Verify">>)
    ELSE VerifyOutcome("", <<"Verify">>)

\* VerifyToken: marshal, flavor check, then the hash comparison (no key) or the
\* signature verification (key). token.Flavor of a nil token is a nil
\* dereference.
VerifyToken(key, token, sig, valid) ==
    IF token.nil THEN VerifyOutcome("panic", <<>>)
    ELSE IF ~Contains(valid, FlavorValue(token.flavor)) THEN VerifyOutcome("flavor", <<>>)
    ELSE IF key = NilKey
        THEN IF Hash(Marshal(token)) = sig THEN VerifyOutcome("", <<"Hash">>)
             ELSE VerifyOutcome("hash", <<"Hash">>)
    ELSE IF Verify(key, Marshal(token), sig) THEN VerifyOutcome("", <<"Verify">>)
    ELSE VerifyOutcome("verify", <<"Verify">>)

\* No verifier function is in use.
NoVerify ==
    [stage |-> "none", signKey |-> NilKey, signed |-> NilToken, made |-> "",
     sig |-> NoVerifier, key |-> NilKey, token |-> NilToken, valid |-> <<>>,
     out |-> NoOutcome]

\* The agent is about to make the verifier of a token.
VerifyStart(k, t) ==
    [NoVerify EXCEPT !.stage = "start", !.signKey = k, !.signed = t]

\* The agent calls VerifierFromToken.
CallVerifierFromToken ==
    /\ verify.stage = "start"
    /\ LET v == VerifierFromToken(verify.signKey, verify.signed) IN
        verify' = [verify EXCEPT !.stage = "made", !.made = v.err, !.sig = v.sig]
    /\ UNCHANGED <<moduleVars, authMap>>

\* The server calls VerifyToken on a token and the verifier it received, with
\* its own key and list of flavors.
CallVerifyToken ==
    /\ verify.stage = "made"
    /\ \E k \in VerifyingKeys, t \in Tokens \cup {NilToken}, l \in ValidFlavorLists :
        verify' = [verify EXCEPT !.stage = "verified", !.key = k, !.token = t,
                                 !.valid = l,
                                 !.out = VerifyToken(k, t, verify.sig, l)]
    /\ UNCHANGED <<moduleVars, authMap>>

\* ------------------------------------------------- auth: flavor registry
\* The longest factory list generateAuthMap is run on.
MaxFactories == 3

\* A factory list, by the flavor each factory's GetAuthFlavor reports; a
\* factory is named by its place in the list.
FactoryLists == UNION {[1..n -> Flavors] : n \in 0..MaxFactories}

\* No factory: the map has no such key.
NoFactory == 0
\* make(AuthMap)
EmptyAuthMap == [f \in Flavors |-> NoFactory]

\* A loop body that stores the factory whether or not the flavor is taken.
AuthMapInsertOverwrite(am, flavor, factory) ==
    [panic |-> FALSE, am |-> [am EXCEPT ![flavor] = factory]]

\* One iteration of generateAuthMap's loop: panic if the flavor is already a
\* key, else store the factory under it.
AuthMapInsert(am, flavor, factory) ==
    IF am[flavor] # NoFactory THEN [panic |-> TRUE, am |-> am]
    ELSE [panic |-> FALSE, am |-> [am EXCEPT ![flavor] = factory]]

\* factory, ok := FlavorToFactory[flavor]
Resolve(am, flavor) == [factory |-> am[flavor], ok |-> am[flavor] # NoFactory]

NoLookup == [asked |-> FALSE, flavor |-> ZeroFlavor, factory |-> NoFactory, ok |-> FALSE]

\* generateAuthMap is not running.
NoAuthMap ==
    [stage |-> "none", list |-> <<>>, i |-> 1, am |-> EmptyAuthMap, lookup |-> NoLookup]

\* Package initialization is about to run generateAuthMap on a factory list.
AuthMapStart(l) == [NoAuthMap EXCEPT !.stage = "loop", !.list = l]

\* One iteration of the range loop.
GenerateAuthMapStep ==
    /\ authMap.stage = "loop"
    /\ authMap.i <= Len(authMap.list)
    /\ LET ins == AuthMapInsert(authMap.am, authMap.list[authMap.i], authMap.i) IN
        authMap' = [authMap EXCEPT !.am = ins.am,
                                   !.i = IF ins.panic THEN @ ELSE @ + 1,
                                   !.stage = IF ins.panic THEN "panic" ELSE @]
    /\ UNCHANGED <<moduleVars, verify>>

\* The loop is over: the map is returned and becomes FlavorToFactory.
GenerateAuthMapReturn ==
    /\ authMap.stage = "loop"
    /\ authMap.i > Len(authMap.list)
    /\ authMap' = [authMap EXCEPT !.stage = "built"]
    /\ UNCHANGED <<moduleVars, verify>>

\* A lookup in the built map, as HandleCall makes it.
ResolveFlavor ==
    /\ authMap.stage = "built"
    /\ \E f \in Flavors :
        LET l == Resolve(authMap.am, f) IN
        authMap' = [authMap EXCEPT !.lookup = [asked |-> TRUE, flavor |-> f,
                                               factory |-> l.factory, ok |-> l.ok]]
    /\ UNCHANGED <<moduleVars, verify>>

\* ------------------------------------------------------------------ spec
\* NewSecurityModule: the cache exists only when CacheExpiration > 0.
InitModule ==
    /\ now = 0
    /\ validAuthFlavors = <<>>
    /\ crashed = FALSE
    /\ pc = [r \in Req |-> "idle"]
    /\ frame = [r \in Req |-> NoFrame]
    /\ slot = [k \in Keys |-> NoSlot]
    /\ entries = [r \in Req |-> NoEntry]
    /\ refs = [r \in Req |-> 0]
    /\ attached = [r \in Req |-> 0]
    /\ result = [r \in Req |-> NoResult]
    /\ calls = [r \in Req |-> {}]

Init ==
    /\ credLifetime \in CacheExpirations
    /\ InitModule
    /\ verify = NoVerify
    /\ authMap = NoAuthMap

Next ==
    \/ Tick
    \/ \E r \in Req :
        \/ Invoke(r)
        \/ HandleCallRejects(r)
        \/ HandleCall(r)
        \/ CheckFlavorsLoaded(r)
        \/ GetAttachInfoFails(r)
        \/ GetAttachInfo(r)
        \/ MakeValidAuthFlavors(r)
        \/ FillValidAuthFlavors(r)
        \/ FillOutOfRange(r)
        \/ CheckFlavorsReceived(r)
        \/ RespondValidAuthFlavors(r)
        \/ CheckFlavorAllowed(r)
        \/ PrivateKey(r)
        \/ PrivateKeyFails(r)
        \/ InitCredentialRequest(r)
        \/ InitCredentialRequestFails(r)
        \/ SignDirect(r)
        \/ SignDirectDone(r)
        \/ GetOrCreateHit(r)
        \/ GetOrCreateWait(r)
        \/ GetOrCreateMiss(r)
        \/ CreateItemDone(r)
        \/ CreateItemFailed(r)
        \/ WaiterServed(r)
        \/ WaiterFailed(r)
        \/ ReturnCredential(r)

Spec == Init /\ [][Next]_vars


\* The token verifier functions of the auth package, on every signing key and
\* token, with a module that serves no call.
InitToken ==
    /\ credLifetime = 0
    /\ InitModule
    /\ \E k \in SigningKeys, t \in Tokens \cup {NilToken} : verify = VerifyStart(k, t)
    /\ authMap = NoAuthMap

NextToken ==
    \/ CallVerifierFromToken
    \/ CallVerifyToken

SpecToken == InitToken /\ [][NextToken]_vars

\* The construction of the flavor registry, on every factory list.
InitAuthMap ==
    /\ credLifetime = 0
    /\ InitModule
    /\ verify = NoVerify
    /\ \E l \in FactoryLists : authMap = AuthMapStart(l)

NextAuthMap ==
    \/ GenerateAuthMapStep
    \/ GenerateAuthMapReturn
    \/ ResolveFlavor

SpecAuthMap == InitAuthMap /\ [][NextAuthMap]_vars

\* The credential cache on its own: NumSigners calls for the Unix flavor have
\* each got through InitCredentialRequest, each with a cache key, and are about
\* to call signCredential on a module with a cache.
SignerFrame(k) ==
    [NoFrame EXCEPT !.method = "RequestCredentials",
                    !.reqb = [kind |-> "msg", flavor |-> UnixFlavor],
                    !.args = UnixFlavor, !.key = k]

InitCache ==
    /\ now = 0
    /\ credLifetime = CacheLifetime
    /\ validAuthFlavors = <<UnixFlavor>>
    /\ crashed = FALSE
    /\ pc = [r \in Signers |-> "sign"]
    /\ \E ks \in [Signers -> Keys] : frame = [r \in Signers |-> SignerFrame(ks[r])]
    /\ slot = [k \in Keys |-> NoSlot]
    /\ entries = [r \in Signers |-> NoEntry]
    /\ refs = [r \in Signers |-> 0]
    /\ attached = [r \in Signers |-> 0]
    /\ result = [r \in Signers |-> NoResult]
    /\ calls = [r \in Signers |-> {"privkey", "init"}]
    /\ verify = NoVerify
    /\ authMap = NoAuthMap

NextCache ==
    \/ Tick
    \/ \E r \in Signers :
        \/ GetOrCreateHit(r)
        \/ GetOrCreateWait(r)
        \/ GetOrCreateMiss(r)
        \/ CreateItemDone(r)
        \/ CreateItemFailed(r)
        \/ CancelSigner(r)
        \/ WaiterServed(r)
        \/ WaiterFailed(r)
        \/ CancelWaiter(r)
        \/ ReturnCredential(r)

SpecCache == InitCache /\ [][NextCache]_vars

\* A caller blocked in GetOrCreate is woken when the creation it waits for is
\* over.
FairCache == \A r \in Signers : WF_vars(WaiterServed(r) \/ WaiterFailed(r))

SpecCacheFair == SpecCache /\ FairCache

\* ------------------------------------------------------------------ claims
\* The creation that served a cache-mediated call failed.
CreationFailed(c) == pc[c] # "creating" /\ entries[c] = NoEntry

C2_ExpiryAtOrAfter ==
    [][\A r \in Req :
        /\ (pc[r] = "creating" /\ pc'[r] = "held")
            => entries'[r].expiredAt = now + credLifetime
        /\ (pc[r] = "sign" /\ pc'[r] # "sign" /\ credLifetime > 0
                /\ slot[frame[r].key].kind = "entry")
            => LET e == entries[slot[frame[r].key].owner] IN
               /\ now < e.expiredAt => (pc'[r] = "held" /\ "signer" \notin calls'[r])
               /\ now >= e.expiredAt => (pc'[r] = "creating" /\ "signer" \in calls'[r])
      ]_vars

\* C3: a failed creation (cacheMissFn error, or a nil credential) is not
\* cached: a marker exists only while its creation runs, a stored entry always
\* carries a credential, every call attached to the failed creation returns an
\* error status and no credential, only calls that waited on it while it ran
\* are attached to it, and a later lookup of a key with nothing stored runs
\* the signer again.
C3_StateNoPoison ==
    /\ \A k \in Keys :
        /\ slot[k].kind = "marker"
            => (pc[slot[k].owner] = "creating" /\ frame[slot[k].owner].key = k)
        /\ slot[k].kind = "entry"
            => (entries[slot[k].owner] # NoEntry /\ entries[slot[k].owner].cred # NilCred)
    /\ \A r \in Req : (pc[r] = "done" /\ "cache" \in calls[r] /\ CreationFailed(attached[r])) =>
        /\ result[r] = StatusResult("MiscError")
        /\ attached[r] # r => "wait" \in calls[r]
        /\ \A k \in Keys : slot[k].kind = "none" \/ slot[k].owner # attached[r]

C3_StepRetry ==
    \A r \in Req :
        /\ (pc[r] = "creating" /\ pc'[r] = "done")
            => (slot'[frame[r].key] = NoSlot /\ entries'[r] = NoEntry)
        /\ (pc[r] = "sign" /\ pc'[r] # "sign" /\ credLifetime > 0
                /\ slot[frame[r].key].kind = "none")
            => (pc'[r] = "creating" /\ "signer" \in calls'[r])

C3_FailedCreationNotCached == []C3_StateNoPoison /\ [][C3_StepRetry]_vars

\* A creation failed, the call that waited on it got the error as well, and
\* nothing is left in the cache.
C3_Witness ==
    \E r, c \in Req :
        /\ r # c /\ pc[r] = "done" /\ pc[c] = "done"
        /\ "wait" \in calls[r] /\ attached[r] = c /\ CreationFailed(c)
        /\ result[r].kind = "status" /\ result[c].kind = "status"
        /\ \A k \in Keys : slot[k] = NoSlot

\* The stages of getCredential behind the membership check.
PastCheck == {"privkey", "init", "sign", "signing", "creating", "waiting", "held"}
\* What getCredential invokes behind the membership check.
CredCalls == {"privkey", "init", "signCredential", "cache", "signer"}

\* C4: getCredential goes past the membership check only with a flavor that
\* is in validAuthFlavors at the moment of the check; PrivateKey,
\* InitCredentialRequest, signCredential and the cache are invoked, and a
\* credential is returned, only past the check; a flavor that is not in the
\* list is rejected with an error and invokes none of them.
C4_Step ==
    \A r \in Req :
        /\ (pc[r] = "member" /\ pc'[r] # "member") =>
            IF Contains(validAuthFlavors, frame[r].args)
            THEN pc'[r] = "privkey"
            ELSE /\ pc'[r] = "done"
                 /\ result'[r].kind = "error"
                 /\ calls'[r] \cap CredCalls = {}
        /\ (pc'[r] \in PastCheck /\ pc[r] \notin PastCheck) =>
            (pc[r] = "member" /\ Contains(validAuthFlavors, frame[r].args))
        /\ (calls'[r] \cap CredCalls # calls[r] \cap CredCalls) => pc[r] \in PastCheck
        /\ (result'[r].kind = "cred" /\ result[r].kind # "cred") => pc[r] \in PastCheck

C4_OnlyAllowedFlavors == [][C4_Step]_vars

\* One call was rejected for its flavor and invoked nothing but the fetch, and
\* another call was given a credential.
C4_Witness ==
    \E r1, r2 \in Req :
        /\ result[r1] = ErrResult("invalid_flavor") /\ calls[r1] \cap CredCalls = {}
        /\ result[r2].kind = "cred" /\ result[r2].cred # NilCred

\* C5: a call that reads validAuthFlavors (the emptiness test, the membership
\* check, the encoding of the list) finds it empty or equal to a complete list
\* of the attach-info service, never partially filled.
C5_NeverPartiallyFilled ==
    [][\A r \in Req :
        (pc[r] \in {"getCredential", "getValidAuthFlavors", "member", "respond"}
            /\ pc'[r] # pc[r])
        => validAuthFlavors \in ServerLists
      ]_vars

\* No call is in the middle of storing a fetched list.
NoneFilling == \A r \in Req : pc[r] # "fill"

\* C6: a call contacts the attach-info service only if the list was empty when
\* it tested it, and once the list is populated it never changes again.
C6_FetchedOnce ==
    [][/\ \A r \in Req : (pc'[r] = "fetch" /\ pc[r] # "fetch") => Len(validAuthFlavors) = 0
       /\ \A r \in Req : ("fetch" \in calls'[r] /\ "fetch" \notin calls[r]) => pc[r] = "fetch"
       /\ (validAuthFlavors # <<>> /\ NoneFilling) => validAuthFlavors' = validAuthFlavors
      ]_vars

\* C7: a fetch that fails, or that returns an empty list, makes its call fail
\* with an error, leaves the list empty, and a call that then finds the list
\* empty fetches again.
C7_FailedFetchFailsTheCall ==
    [][\A r \in Req :
        /\ (pc[r] = "fetch" /\ pc'[r] = "done") =>
            (result'[r].kind = "error" /\ validAuthFlavors' = validAuthFlavors)
        /\ (pc[r] = "fill" /\ frame[r].resp = <<>> /\ pc'[r] # "fill") =>
            (pc'[r] = "done" /\ result'[r].kind = "error" /\ validAuthFlavors' = <<>>)
        /\ (pc[r] \in {"getCredential", "getValidAuthFlavors"} /\ pc'[r] # pc[r]
                /\ validAuthFlavors = <<>>)
            => pc'[r] = "fetch"
      ]_vars

\* C8: when PrivateKey() fails, HandleCall returns an encoded response with the
\* BadCert status and no credential (not a transport error), and the call
\* invokes neither InitCredentialRequest nor signCredential nor the cache.
C8_BadCertOnKeyFailure ==
    \A r \in Req : "privkey_err" \in calls[r] =>
        /\ pc[r] = "done"
        /\ result[r] = StatusResult("BadCert")
        /\ calls[r] \cap {"init", "signCredential", "cache", "signer"} = {}

\* A call whose PrivateKey() failed has returned.
C8_Witness ==
    \E r \in Req :
        "privkey_err" \in calls[r] /\ pc[r] = "done" /\ result[r].kind = "status"

\* C9: every failure of InitCredentialRequest or of signCredential ends in a
\* response that carries a status and no credential, never in a transport error.
C9_LifecycleFailuresAreStatus ==
    \A r \in Req :
        (pc[r] = "done" /\ ({"init_err", "sign_err"} \cap calls[r] # {}))
            => (result[r].kind = "status" /\ result[r].cred = NilCred)

\* C10: HandleCall rejects a decoded flavor that has no factory, whatever the
\* method, and for a flavor with a factory every method other than the two it
\* serves; such a call invokes nothing and changes no module state.
C10_Step ==
    \A r \in Req :
        (pc[r] = "called" /\ pc'[r] # "called" /\ getAuthArgs(frame[r].reqb).ok) =>
            LET f == getAuthArgs(frame[r].reqb).flavor
                rejected(why) ==
                    /\ pc'[r] = "done"
                    /\ result'[r] = ErrResult(why)
                    /\ calls'[r] = {}
                    /\ UNCHANGED <<validAuthFlavors, cacheVars, crashed>>
            IN  /\ f \notin FlavorToFactory => rejected("unsupported_flavor")
                /\ (f \in FlavorToFactory
                        /\ frame[r].method \notin {"RequestCredentials", "RequestValidFlavors"})
                    => rejected("unknown_method")

C10_RejectsBeforeDispatch == [][C10_Step]_vars

\* A call was rejected for its flavor and another for its method.
C10_Witness ==
    \E r1, r2 \in Req :
        /\ result[r1] = ErrResult("unsupported_flavor") /\ calls[r1] = {}
        /\ result[r2] = ErrResult("unknown_method") /\ calls[r2] = {}

\* C11: a call with an empty payload never fails decoding and is handled as a
\* call whose payload names the Unix flavor with no inner data: HandleCall
\* leaves it with the same outcome (the same next stage and decoded flavor, or
\* the same rejection), and in getCredential it passes the membership check
\* exactly when the Unix flavor is in validAuthFlavors.
C11_Step ==
    \A r \in Req :
        (frame[r].reqb.kind = "empty" /\ pc'[r] # pc[r]) =>
            LET d == Dispatch(frame[r].method, [kind |-> "msg", flavor |-> UnixFlavor]) IN
            /\ pc[r] = "called" =>
                /\ result'[r] # ErrResult("unmarshal")
                /\ pc'[r] = d.next
                /\ d.next = "done" => result'[r] = d.res
                /\ d.next # "done" => frame'[r].args = UnixFlavor
            /\ pc[r] = "member" =>
                IF Contains(validAuthFlavors, UnixFlavor)
                THEN pc'[r] = "privkey"
                ELSE pc'[r] = "done" /\ result'[r] = ErrResult("invalid_flavor")

C11_EmptyPayloadIsUnix == [][C11_Step]_vars

\* A call with an empty payload is past the membership check, about to sign.
C11_Witness ==
    \E r \in Req :
        frame[r].reqb.kind = "empty" /\ frame[r].args = UnixFlavor /\ pc[r] = "sign"

\* The call got through InitCredentialRequest.
Initialized(r) == "init" \in calls[r] /\ "init_err" \notin calls[r]

\* C12: with a cache expiration <= 0 there is no cache: nothing is ever stored,
\* every call that got through Init runs the signer itself, once, and a
\* credential it returns is the one its own signer call produced; with an
\* expiration > 0 every signCredential goes through the cache and an entry
\* lives for that duration.
C12_State ==
    \A r \in Req :
        /\ credLifetime <= 0 =>
            /\ "cache" \notin calls[r]
            /\ entries[r] = NoEntry /\ refs[r] = 0
            /\ \A k \in Keys : slot[k] = NoSlot
            /\ (Initialized(r) /\ pc[r] \in {"signing", "done"}) => "signer" \in calls[r]
            /\ (pc[r] = "done" /\ result[r].kind = "cred" /\ result[r].cred # NilCred)
                => (result[r].cred = r /\ "signer" \in calls[r])
        /\ credLifetime > 0 =>
            /\ pc[r] # "signing"
            /\ "signCredential" \in calls[r] => "cache" \in calls[r]
            /\ entries[r] # NoEntry => "signer" \in calls[r]

C12_Step ==
    \A r \in Req :
        /\ ("signer" \in calls'[r] /\ "signer" \notin calls[r]) =>
            (pc[r] = "sign" /\ pc'[r] = (IF credLifetime <= 0 THEN "signing" ELSE "creating"))
        /\ (pc'[r] = "sign" /\ pc[r] # "sign") => (pc[r] = "init" /\ "signer" \notin calls[r])
        /\ (entries'[r] # entries[r]) =>
            (credLifetime > 0 /\ entries'[r].expiredAt = now + credLifetime)

C12_CacheOnlyWhenEnabled == []C12_State /\ [][C12_Step]_vars

\* Without a cache, two calls each returned the credential of their own signer
\* call.
C12_Witness ==
    /\ credLifetime <= 0
    /\ \E r1, r2 \in Req :
        /\ r1 # r2 /\ pc[r1] = "done" /\ pc[r2] = "done"
        /\ result[r1] = CredResult(r1) /\ result[r2] = CredResult(r2)

\* VerifyToken has returned for a token whose flavor is not in the list given.
FlavorNotValid ==
    /\ verify.stage = "verified"
    /\ ~verify.token.nil
    /\ ~Contains(verify.valid, FlavorValue(verify.token.flavor))

\* C13: whatever the key (nil or not), the token and the verifier, VerifyToken
\* returns the unsupported-flavor error when the token's flavor is not in
\* validAuthFlavors, and it has then neither hashed nor verified anything.
C13_FlavorCheckedFirst ==
    FlavorNotValid => (verify.out.err = "flavor" /\ verify.out.ops = <<>>)

\* A token with a correct signature under the verifying key was refused for its
\* flavor.
C13_Witness ==
    /\ FlavorNotValid
    /\ Verify(verify.key, Marshal(verify.token), verify.sig)
    /\ verify.out.err # ""

\* VerifyToken has returned for a token whose flavor is in the list given.
FlavorValid ==
    /\ verify.stage = "verified"
    /\ ~verify.token.nil
    /\ Contains(verify.valid, FlavorValue(verify.token.flavor))

\* C14: the verifier VerifierFromToken makes of a token with a private key is
\* accepted by VerifyToken with the public key of the pair, the same token and
\* a list holding its flavor; without a key on the verifying side VerifyToken
\* succeeds exactly when the verifier is the hash of the marshalled token, so
\* the hash made of another token is refused.
C14_RoundTrip ==
    FlavorValid =>
        /\ (verify.signKey.kind = "private" /\ verify.key = PublicKeyOf(verify.signKey.pair)
                /\ verify.token = verify.signed)
            => (verify.made = "" /\ verify.out.err = "")
        /\ verify.key = NilKey =>
            (verify.out.err = "" <=> verify.sig = Hash(Marshal(verify.token)))
        /\ (verify.key = NilKey /\ verify.signKey = NilKey /\ verify.token # verify.signed)
            => verify.out.err # ""

\* A signed verifier went round: made with a private key, accepted with the
\* public key.
C14_Witness ==
    /\ FlavorValid
    /\ verify.signKey.kind = "private" /\ verify.key = PublicKeyOf(verify.signKey.pair)
    /\ verify.token = verify.signed
    /\ verify.out.err = "" /\ verify.out.ops = <<"Verify">>

\* Two factories of the list report the same flavor.
Duplicates(l) == \E i, j \in 1..Len(l) : i < j /\ l[i] = l[j]
\* The flavors the factories of the list report.
Registered(l) == {l[i] : i \in 1..Len(l)}
\* The keys of the map.
MapKeys(am) == {f \in Flavors : am[f] # NoFactory}

\* C15: generateAuthMap panics when two factories of the list report the same
\* flavor and returns a map otherwise; the keys of the returned map are the
\* flavors of the list, each mapped to the factory that reported it; a lookup
\* finds a flavor exactly when it is registered, and then its factory.
C15_RegistryIsExact ==
    /\ authMap.stage = "panic" => Duplicates(authMap.list)
    /\ authMap.stage = "built" =>
        /\ ~Duplicates(authMap.list)
        /\ MapKeys(authMap.am) = Registered(authMap.list)
        /\ \A f \in MapKeys(authMap.am) : authMap.list[authMap.am[f]] = f
    /\ authMap.lookup.asked =>
        /\ authMap.stage = "built"
        /\ authMap.lookup.ok <=> authMap.lookup.flavor \in Registered(authMap.list)
        /\ authMap.lookup.ok => authMap.list[authMap.lookup.factory] = authMap.lookup.flavor
        /\ ~authMap.lookup.ok => authMap.lookup.factory = NoFactory

\* The registry of two factories was built and a lookup of a third flavor
\* reported not-found.
C15_Witness ==
    /\ authMap.stage = "built" /\ Len(authMap.list) = 2
    /\ authMap.lookup.asked /\ ~authMap.lookup.ok

\* Another call is running the creation for key k.
KeyBusy(k, r) == \E q \in Signers \ {r} : pc[q] = "creating" /\ frame[q].key = k

\* C16: creations for distinct keys do not block one another: a call waits
\* only for a creation of its own key; a call whose key has no creation in
\* progress gets its entry or starts its own creation at once, whatever
\* creations run for other keys; and a call that runs a creation or holds an
\* entry can always go on.
C16_NoCrossBlocking ==
    \A r \in Signers :
        /\ pc[r] = "waiting" =>
            /\ attached[r] # r
            /\ pc[attached[r]] = "creating" => frame[attached[r]].key = frame[r].key
            /\ entries[attached[r]] # NoEntry => entries[attached[r]].key = frame[r].key
        /\ (pc[r] = "sign" /\ ~KeyBusy(frame[r].key, r))
            => ENABLED (GetOrCreateHit(r) \/ GetOrCreateMiss(r))
        /\ pc[r] = "creating" => ENABLED CreateItemDone(r)
        /\ pc[r] = "held" => ENABLED ReturnCredential(r)

\* While one call still runs the signer for a key, with a waiter on it, a call
\* for another key has created its own credential and returned it.
C16_Witness ==
    \E r1, r2, r3 \in Signers :
        /\ pc[r1] = "creating" /\ pc[r3] = "waiting" /\ attached[r3] = r1
        /\ pc[r2] = "done" /\ result[r2] = CredResult(r2)
        /\ entries[r2].key # frame[r1].key

\* The call ran the signer and its context was cancelled meanwhile.
CancelledCreator(c) == "cancelled" \in calls[c] /\ "signer" \in calls[c]
\* The call's context was cancelled while it waited.
CancelledWaiter(w) == "cancelled" \in calls[w] /\ "signer" \notin calls[w]

\* C17: cancelling the context of the call that runs the signer aborts its
\* creation: the marker is gone, nothing is stored, the call and, eventually,
\* every call waiting on it return an error, and a later lookup of the key
\* starts a new creation; cancelling the context of a waiting call returns an
\* error to that call alone and changes neither the cache nor any other call,
\* and a waiter of a creation that succeeded is still served.
C17_State ==
    /\ \A k \in Keys : slot[k].kind = "marker" =>
        (pc[slot[k].owner] = "creating" /\ frame[slot[k].owner].key = k)
    /\ \A c \in Signers : CancelledCreator(c) =>
        /\ pc[c] = "done" /\ result[c] = StatusResult("MiscError")
        /\ entries[c] = NoEntry
        /\ \A k \in Keys : slot[k].kind = "none" \/ slot[k].owner # c
    /\ \A w \in Signers :
        /\ CancelledWaiter(w) => (pc[w] = "done" /\ result[w] = StatusResult("MiscError"))
        /\ (pc[w] = "done" /\ "wait" \in calls[w] /\ CancelledCreator(attached[w]))
            => result[w] = StatusResult("MiscError")

C17_Step ==
    \A r \in Signers :
        /\ (pc[r] = "creating" /\ "cancelled" \in calls'[r]) =>
            /\ pc'[r] = "done" /\ slot'[frame[r].key] = NoSlot
            /\ UNCHANGED <<entries, refs, attached>>
            /\ \A q \in Signers \ {r} : pc'[q] = pc[q] /\ result'[q] = result[q]
        /\ (pc[r] = "waiting" /\ "cancelled" \in calls'[r]) =>
            /\ pc'[r] = "done"
            /\ UNCHANGED <<slot, entries, refs, attached>>
            /\ \A q \in Signers \ {r} :
                pc'[q] = pc[q] /\ result'[q] = result[q] /\ calls'[q] = calls[q]
        /\ (pc[r] = "sign" /\ pc'[r] # "sign" /\ slot[frame[r].key].kind = "none")
            => (pc'[r] = "creating" /\ "signer" \in calls'[r])

C17_Live ==
    \A w, c \in Signers :
        /\ (pc[w] = "waiting" /\ attached[w] = c /\ CancelledCreator(c))
            ~> (pc[w] = "done" /\ result[w] = StatusResult("MiscError"))
        /\ (pc[w] = "waiting" /\ attached[w] = c /\ entries[c] # NoEntry)
            ~> (pc[w] = "held" \/ CancelledWaiter(w))

C17_CancellationAborts == []C17_State /\ [][C17_Step]_vars /\ C17_Live

\* The creator of a key was cancelled, a call that waited on it has not yet
\* been given the error, and a third call already runs a new creation for the
\* same key.
C17_Witness ==
    \E c, w, n \in Signers :
        /\ CancelledCreator(c) /\ pc[c] = "done"
        /\ pc[w] = "waiting" /\ attached[w] = c
        /\ pc[n] = "creating" /\ frame[n].key = frame[w].key
        /\ slot[frame[w].key] = Marker(n)

\* The calls that hold a reference to the entry creation c produced.
Holders(c) == {r \in Signers : pc[r] = "held" /\ frame[r].item = c}

\* C19: a call that GetOrCreate gave an entry releases it once when it
\* returns, on the invalid-item return as on the normal one; a call whose
\* GetOrCreate failed releases nothing; so an entry's reference count is the
\* number of calls that hold it, and is zero once every call has returned.
C19_State ==
    /\ Released(TRUE) = 1 /\ Released(FALSE) = 1
    /\ \A c \in Signers : refs[c] = Cardinality(Holders(c))
    /\ (\A r \in Signers : pc[r] \in {"sign", "done"}) => \A c \in Signers : refs[c] = 0

C19_Step ==
    \A r \in Signers :
        /\ (pc[r] = "held" /\ pc'[r] = "done") =>
            refs' = [refs EXCEPT ![frame[r].item] = @ - 1]
        /\ (pc[r] \in {"creating", "waiting"} /\ pc'[r] = "done") => refs' = refs
        /\ refs'[r] < refs[r] => \E q \in Signers : pc[q] = "held" /\ pc'[q] = "done"

C19_ReleasedOncePerEntry == []C19_State /\ [][C19_Step]_vars

\* Every call has returned, one entry was shared by its creator and a waiter,
\* and no reference is left.
C19_Witness ==
    /\ \A r \in Signers : pc[r] = "done"
    /\ \E r \in Signers : "wait" \in calls[r] /\ result[r].kind = "cred"
    /\ \A c \in Signers : refs[c] = 0

\* What a call invokes once the request is initialized.
SignCalls == {"signCredential", "cache", "signer"}

\* C18: a request is signed only after its InitCredentialRequest succeeded,
\* and at most once: signCredential is invoked in the one step that leaves the
\* stage Init's success leads to, which is entered from Init only and never
\* again; a call whose Init failed invokes neither signCredential nor the cache
\* nor the signer, puts nothing into the cache and returns no credential; a
\* credential is returned only by a call that was initialized and signed.
C18_State ==
    \A r \in Req :
        /\ calls[r] \cap SignCalls # {} => (Initialized(r) /\ "signCredential" \in calls[r])
        /\ "init_err" \in calls[r] =>
            /\ pc[r] = "done" /\ result[r].kind # "cred"
            /\ calls[r] \cap SignCalls = {}
            /\ entries[r] = NoEntry /\ attached[r] = 0
            /\ \A k \in Keys : slot[k].kind = "none" \/ slot[k].owner # r
        /\ result[r].kind = "cred" => (Initialized(r) /\ "signCredential" \in calls[r])

C18_Step ==
    \A r \in Req :
        /\ ("signCredential" \in calls'[r] /\ "signCredential" \notin calls[r])
            => (pc[r] = "sign" /\ pc'[r] # "sign")
        /\ (pc'[r] = "sign" /\ pc[r] # "sign")
            => (pc[r] = "init" /\ Initialized(r)' /\ calls[r] \cap SignCalls = {})
        /\ (pc[r] = "sign" /\ pc'[r] # "sign") => "signCredential" \in calls'[r]

C18_SignedOnlyAfterInit == []C18_State /\ [][C18_Step]_vars

\* With the cache on, one call failed in Init and left nothing behind, and
\* another was initialized, signed and cached.
C18_Witness ==
    \E r1, r2 \in Req :
        /\ "init_err" \in calls[r1] /\ pc[r1] = "done"
        /\ pc[r2] = "done" /\ result[r2] = CredResult(r2) /\ entries[r2] # NoEntry

\* C20: GetMethod resolves the ID of every method HandleCall serves
\* (RequestCredentials and RequestValidFlavors) to that method and no other ID.
C20_GetMethodCoversHandleCall ==
    /\ \A r \in Req : pc[r] \in {"getCredential", "getValidAuthFlavors"} =>
        GetMethod(frame[r].method) = [ok |-> TRUE, method |-> frame[r].method]
    /\ \A id \in Methods \ {"RequestCredentials", "RequestValidFlavors"} : ~GetMethod(id).ok

====
